---- MODULE Spec2Model ----
(***************************************************************************)
(* Package initialization of the Babel runtime package SIDL.io             *)
(* (src/babel-runtime/python/SIDL/io/__init__.py).                         *)
(*                                                                         *)
(* The module body has two statements: the assignment of __all__ (lines    *)
(* 43-47) and a try/except (lines 49-53) that imports pkgutil.extend_path  *)
(* and rebinds __path__ to its result, ignoring every exception.           *)
(*                                                                         *)
(* The body is executed by the host import system, which creates the       *)
(* package's __name__ and __path__ before the first statement runs, on the *)
(* first import and again on every reload.  The host (sys.path, the        *)
(* directories and *.pkg files on it, the presence of pkgutil) is chosen   *)
(* in Init and is never changed by the package.                            *)
(***************************************************************************)
EXTENDS Naturals, Sequences, FiniteSets, TLC

VARIABLES
    pc,               \* position of the interpreter in the module body
    __all__,          \* value bound to __all__ (<<>> while unbound)
    __path__,         \* value bound to __path__
    globals,          \* names bound in the module's namespace
    outcome,          \* how the try block of the current load ended
    attempts,         \* times the try block was entered in the current load
    assigned,         \* assignments to __all__ made in the current load
    stderr,           \* what the load has written to the error stream
    loads,            \* number of times the host has started the body
    prev,             \* what the previous load left behind
    sys_path,         \* host: sys.path
    initDirs,         \* host: directories d with d/SIDL/io/__init__.py
    pkgfile,          \* host: lines of d/SIDL.io.pkg (<<>> when there is none)
    pkgutil_present   \* host: pkgutil and its extend_path exist

host == <<sys_path, initDirs, pkgfile, pkgutil_present>>
vars == <<pc, __all__, __path__, globals, outcome, attempts, assigned,
          stderr, loads, prev, sys_path, initDirs, pkgfile, pkgutil_present>>

----------------------------------------------------------------------------
(* Bounds of the model *)

MaxLoads == 2
MaxSysPath == 2
MaxPkgLines == 1

Dirs == {"/opt/babel", "/usr/lib/python"}
RawLines == {"", "# extra", "/opt/ext"}

BoundedSeq(S, n) == UNION {[1..k -> S] : k \in 0..n}

----------------------------------------------------------------------------
(* The package *)

__name__ == "SIDL.io"

ExportListReordered ==
    <<"Serializer", "Deserializer", "IOException", "Serializable">>

\* lines 43-47
ExportList == <<"Deserializer", "IOException", "Serializable", "Serializer">>

\* the directory the package was loaded from
Home == "/opt/babel"

\* os.path.join(*name.split('.'))
PName(name) == IF name = "SIDL.io" THEN "SIDL/io" ELSE name

Join(dir, rel) == dir \o "/" \o rel

\* the one-element __path__ the import system gives a package
LoaderPath == <<Join(Home, PName(__name__))>>

InSeq(x, s) == \E i \in 1..Len(s) : s[i] = x

\* "if not line or line.startswith('#'): continue"
Skipped(line) == line = "" \/ line = "# extra"

\* the loop over the lines of a *.pkg file: every line kept is appended,
\* whether or not it is on the path already
RECURSIVE AppendLines(_, _)
AppendLines(path, lines) ==
    IF lines = <<>> THEN path
    ELSE AppendLines(IF Skipped(Head(lines)) THEN path
                     ELSE Append(path, Head(lines)),
                     Tail(lines))

\* the body of extend_path's loop for one entry of sys.path
ScanDir(path, dir, name) ==
    LET subdir == Join(dir, PName(name))
        p1 == IF ~InSeq(subdir, path) /\ dir \in initDirs
              THEN Append(path, subdir) ELSE path
    IN  AppendLines(p1, pkgfile[dir])

RECURSIVE ScanAll(_, _, _)
ScanAll(path, dirs, name) ==
    IF dirs = <<>> THEN path
    ELSE ScanAll(ScanDir(path, Head(dirs), name), Tail(dirs), name)

\* pkgutil.extend_path(path, name), called on line 51
extend_path(path, name) == ScanAll(path, sys_path, name)

FollowsTryFirst(s) ==
    CASE s = "begin" -> "import"
      [] s = "try" -> "assign_all"
      [] s = "assign_all" -> "loaded"

\* the order of the statements of the module body
Follows(s) ==
    CASE s = "begin" -> "assign_all"
      [] s = "assign_all" -> "import"
      [] s = "try" -> "loaded"

\* 0, 1, more than one
Count(n) == IF n < 2 THEN n + 1 ELSE n

NoLoad == [all |-> <<>>, path |-> <<>>, outcome |-> "none", globals |-> {}]

Init ==
    /\ pc = "unloaded"
    /\ __all__ = <<>>
    /\ __path__ = <<>>
    /\ globals = {}
    /\ outcome = "none"
    /\ attempts = 0
    /\ assigned = 0
    /\ stderr = <<>>
    /\ loads = 0
    /\ prev = NoLoad
    /\ sys_path \in BoundedSeq(Dirs, MaxSysPath)
    /\ initDirs \in {D \in SUBSET Dirs : Home \in D}
    /\ pkgfile \in [Dirs -> BoundedSeq(RawLines, MaxPkgLines)]
    /\ pkgutil_present \in BOOLEAN

\* first import: the import system creates the module, binds __name__ and
\* __path__ and starts the body
Load ==
    /\ pc = "unloaded"
    /\ loads < MaxLoads
    /\ globals' = {"__name__", "__path__"}
    /\ __path__' = LoaderPath
    /\ pc' = Follows("begin")
    /\ loads' = loads + 1
    /\ outcome' = "none"
    /\ attempts' = 0
    /\ assigned' = 0
    /\ UNCHANGED <<__all__, stderr, prev, host>>

\* reload: the module's namespace is kept, __path__ is bound afresh and the
\* body runs again
Reload ==
    /\ pc = "loaded"
    /\ loads < MaxLoads
    /\ prev' = [all |-> __all__, path |-> __path__, outcome |-> outcome,
                globals |-> globals]
    /\ globals' = globals \cup {"__name__", "__path__"}
    /\ __path__' = LoaderPath
    /\ pc' = Follows("begin")
    /\ loads' = loads + 1
    /\ outcome' = "none"
    /\ attempts' = 0
    /\ assigned' = 0
    /\ UNCHANGED <<__all__, stderr, host>>

AssignAllAppends ==
    /\ pc = "assign_all"
    /\ __all__' = __all__ \o ExportList
    /\ globals' = globals \cup {"__all__"}
    /\ assigned' = Count(assigned)
    /\ pc' = Follows("assign_all")
    /\ UNCHANGED <<__path__, outcome, attempts, stderr, loads, prev, host>>

\* lines 43-47: __all__ = [ ... ]
AssignAll ==
    /\ pc = "assign_all"
    /\ __all__' = ExportList
    /\ globals' = globals \cup {"__all__"}
    /\ assigned' = Count(assigned)
    /\ pc' = Follows("assign_all")
    /\ UNCHANGED <<__path__, outcome, attempts, stderr, loads, prev, host>>

ImportExtendPathExports ==
    /\ pc = "import"
    /\ pkgutil_present
    /\ attempts' = Count(attempts)
    /\ globals' = globals \cup {"extend_path"}
    /\ __all__' = Append(__all__, "extend_path")
    /\ pc' = "call"
    /\ UNCHANGED <<__path__, outcome, assigned, stderr, loads, prev, host>>

\* lines 49-50: the try block is entered and the import succeeds
ImportExtendPath ==
    /\ pc = "import"
    /\ pkgutil_present
    /\ attempts' = Count(attempts)
    /\ globals' = globals \cup {"extend_path"}
    /\ pc' = "call"
    /\ UNCHANGED <<__all__, __path__, outcome, assigned, stderr, loads, prev,
                   host>>

\* lines 49-50: the try block is entered and the import raises: always when
\* pkgutil or extend_path is missing, and possibly (any exception is caught)
\* when it is there
ImportFails ==
    /\ pc = "import"
    /\ attempts' = Count(attempts)
    /\ outcome' = "import_failed"
    /\ pc' = "except"
    /\ UNCHANGED <<__all__, __path__, globals, assigned, stderr, loads, prev,
                   host>>

CallReturnsDropsPath ==
    /\ pc = "call"
    /\ __path__' = extend_path(<<>>, __name__)
    /\ outcome' = "ok"
    /\ pc' = Follows("try")
    /\ UNCHANGED <<__all__, globals, attempts, assigned, stderr, loads, prev,
                   host>>

\* line 51: extend_path returns and __path__ is rebound
CallReturns ==
    /\ pc = "call"
    /\ __path__' = extend_path(__path__, __name__)
    /\ outcome' = "ok"
    /\ pc' = Follows("try")
    /\ UNCHANGED <<__all__, globals, attempts, assigned, stderr, loads, prev,
                   host>>

\* line 51: extend_path raises (an exception of any kind, at any call)
CallRaises ==
    /\ pc = "call"
    /\ outcome' = "raised"
    /\ pc' = "except"
    /\ UNCHANGED <<__all__, __path__, globals, attempts, assigned, stderr,
                   loads, prev, host>>

ExceptReraises ==
    /\ pc = "except"
    /\ pc' = "failed"
    /\ UNCHANGED <<__all__, __path__, globals, outcome, attempts, assigned,
                   stderr, loads, prev, host>>

ExceptFallback ==
    /\ pc = "except"
    /\ __path__' = <<>>
    /\ pc' = Follows("try")
    /\ UNCHANGED <<__all__, globals, outcome, attempts, assigned, stderr,
                   loads, prev, host>>

ExceptRetries ==
    /\ pc = "except"
    /\ pc' = "import"
    /\ UNCHANGED <<__all__, __path__, globals, outcome, attempts, assigned,
                   stderr, loads, prev, host>>

\* lines 52-53: except: pass
ExceptPass ==
    /\ pc = "except"
    /\ pc' = Follows("try")
    /\ UNCHANGED <<__all__, __path__, globals, outcome, attempts, assigned,
                   stderr, loads, prev, host>>

\* the statements of the module body
Body ==
    \/ AssignAll
    \/ ImportExtendPath
    \/ ImportFails
    \/ CallReturns
    \/ CallRaises
    \/ ExceptPass

Next ==
    \/ Load
    \/ Reload
    \/ AssignAll
    \/ ImportExtendPath
    \/ ImportFails
    \/ CallReturns
    \/ CallRaises
    \/ ExceptPass

Spec == Init /\ [][Next]_vars

\* the interpreter runs a body it has started to its end
FairSpec == Spec /\ WF_vars(Body)

----------------------------------------------------------------------------
(* Properties *)

Loading == {"assign_all", "import", "call", "except"}

\* C1: once the package is loaded, whatever the outcome of the
\* path-extension step, __all__ is exactly the four names Deserializer,
\* IOException, Serializable, Serializer in that order.
ExportListExact ==
    pc = "loaded" =>
        /\ "__all__" \in globals
        /\ __all__ = <<"Deserializer", "IOException", "Serializable",
                       "Serializer">>

ExportListExactWitness ==
    /\ pc = "loaded"
    /\ outcome = "import_failed"
    /\ ~pkgutil_present
    /\ Len(__all__) = 4

\* C2: a load never ends in an error: no state is the failed state, and
\* once the path-extension step has ended (returned, raised, or found the
\* mechanism absent) and the handler has run, the package is loaded.
LoadNeverFails ==
    /\ pc # "failed"
    /\ (outcome \in {"ok", "raised", "import_failed"} /\ pc # "except"
            => pc = "loaded")

LoadNeverFailsWitness ==
    /\ pc = "loaded"
    /\ outcome = "raised"
    /\ prev.outcome = "ok"

\* C3 as stated: after a second run of the initialization the export list
\* and the package search path are those the previous load left.
ReloadSameState ==
    loads >= 2 /\ pc = "loaded" =>
        /\ __all__ = prev.all
        /\ __path__ = prev.path

\* C3 amended: after a second run the export list is the one the previous
\* load left; the search path is too when the path-extension step succeeded
\* in both loads or failed in both; and no other name is bound or unbound
\* when the step ended the same way (import failed, call raised, call
\* returned) as in the previous load.
ReloadSameStateGivenSameOutcome ==
    loads >= 2 /\ pc = "loaded" =>
        /\ __all__ = prev.all
        /\ ((outcome = "ok") = (prev.outcome = "ok") => __path__ = prev.path)
        /\ (outcome = prev.outcome => globals = prev.globals)

ReloadSameStateWitness ==
    /\ loads = 2
    /\ pc = "loaded"
    /\ outcome = "ok"
    /\ prev.outcome = "ok"
    /\ Len(__path__) > 1

\* C4: a step on which the path-extension attempt fails, and the handler
\* step after it, leave __path__ and the error stream as they were and
\* never end in the failed state; the handler ends the load.
FailureKeepsPath ==
    [][(pc' = "except" \/ pc = "except") =>
            /\ __path__' = __path__
            /\ stderr' = stderr
            /\ pc' # "failed"
            /\ (pc = "except" => pc' = "loaded")]_vars

FailureKeepsPathWitness ==
    /\ pc = "loaded"
    /\ outcome \in {"raised", "import_failed"}
    /\ __path__ = LoaderPath
    /\ extend_path(__path__, __name__) # __path__

\* C5: __all__ is assigned at most once in a load, and once it is bound no
\* step changes its value.
ExportListReadOnly ==
    /\ [](assigned <= 1)
    /\ [][("__all__" \in globals) => __all__' = __all__]_vars

ExportListReadOnlyWitness ==
    /\ pc = "loaded"
    /\ outcome = "ok"
    /\ assigned = 1
    /\ loads = 2
    /\ __path__ # LoaderPath

\* C6: a step of the body changes __path__ only when the extension call
\* returns, and that step binds __path__ to the value of extend_path on the
\* previous __path__ and the package's name.
PathChangedOnlyBySuccess ==
    [][/\ (pc \in Loading /\ __path__' # __path__ =>
                pc = "call" /\ outcome' = "ok")
       /\ (pc = "call" /\ outcome' = "ok" =>
                __path__' = extend_path(__path__, __name__))]_vars

PathChangedOnlyBySuccessWitness ==
    /\ pc = "loaded"
    /\ outcome = "ok"
    /\ Len(__path__) >= 3

\* C7: a load enters the path-extension step at most once and every load
\* that has started reaches the loaded state.
LoadTerminates ==
    /\ [](attempts <= 1)
    /\ ((pc \in Loading) ~> (pc = "loaded"))

LoadTerminatesWitness ==
    /\ pc = "loaded"
    /\ attempts = 1
    /\ outcome = "raised"
    /\ loads = 2

\* C8: while the path-extension step is in progress, after it has failed
\* and after it has succeeded, __all__ is already bound to the four names.
ExportListBeforeExtension ==
    pc \in {"import", "call", "except", "loaded"} =>
        /\ "__all__" \in globals
        /\ __all__ = ExportList

ExportListBeforeExtensionWitness ==
    /\ pc = "except"
    /\ outcome = "raised"
    /\ __all__ = ExportList

====
